---- MODULE Spec2Model ----
(***************************************************************************)
(* Knowledge-base sync scripts of mshaler/Isometry:                        *)
(*   scripts/sync-github-issues.py   issue sync (fetch, write, index)      *)
(*   scripts/import-apple-notes.py   notes import (copy, index)            *)
(*   scripts/split-kb-files.py       section extraction                    *)
(*                                                                         *)
(* Text is modelled as a sequence of characters, each character a string   *)
(* of length one; the glyph U+2192 is the character "ARROW" and a line     *)
(* break is the character "NL".                                            *)
(***************************************************************************)
EXTENDS Integers, Sequences, FiniteSets, TLC

\* ------------------------------------------------------------------ bounds
MaxIssues == 2       \* issues in one fetched list (sync runs)
MaxNumber == 2       \* issue numbers are 1..MaxNumber
MaxBodyLen == 1      \* characters of a title after its prefix
MaxRuns == 2         \* sync runs in one behaviour
MaxEdits == 1        \* edits of the tracker's data in one behaviour
MaxClock == 1        \* minutes the wall clock can advance

None == "None"

\* ------------------------------------------------------- string primitives
RECURSIVE ReplaceAll(_, _, _)
\* str.replace(old, new), old a non-empty text: leftmost, non-overlapping.
ReplaceAll(s, old, new) ==
    IF Len(s) < Len(old) THEN s
    ELSE IF SubSeq(s, 1, Len(old)) = old
         THEN new \o ReplaceAll(SubSeq(s, Len(old) + 1, Len(s)), old, new)
         ELSE <<s[1]>> \o ReplaceAll(Tail(s), old, new)

UpperChars == {"A", "B", "P"}
LowerChars == {"a", "b", "p", "t", "o", "m", "d"}
DigitChars == <<"0", "1", "2", "3", "4", "5", "6", "7", "8", "9">>
DigitSet == {DigitChars[i] : i \in 1..10}

\* str.lower(), character by character.
LowerChar(c) ==
    CASE c = "A" -> "a"
      [] c = "B" -> "b"
      [] c = "P" -> "p"
      [] OTHER -> c

Lower(s) == [i \in 1..Len(s) |-> LowerChar(s[i])]

\* str.isalnum() of one character.
IsAlnum(c) == c \in UpperChars \cup LowerChars \cup DigitSet

\* str.isdigit(): non-empty and digits only.
IsDigit(s) == Len(s) > 0 /\ \A i \in 1..Len(s) : s[i] \in DigitSet

RECURSIVE LStrip(_)
LStrip(s) == IF s # <<>> /\ s[1] = " " THEN LStrip(Tail(s)) ELSE s

RECURSIVE RStrip(_)
RStrip(s) ==
    IF s # <<>> /\ s[Len(s)] = " " THEN RStrip(SubSeq(s, 1, Len(s) - 1)) ELSE s

\* str.strip()
Strip(s) == RStrip(LStrip(s))

\* Positions of character c in s.
Positions(s, c) == {i \in 1..Len(s) : s[i] = c}

Min(S) == CHOOSE x \in S : \A y \in S : x <= y
Max(S) == CHOOSE x \in S : \A y \in S : x >= y

\* s.split(c, 1)[-1]: what follows the first c, or all of s without a c.
AfterFirst(s, c) ==
    IF Positions(s, c) = {} THEN s
    ELSE SubSeq(s, Min(Positions(s, c)) + 1, Len(s))

\* s.startswith(p)
StartsWith(s, p) == Len(s) >= Len(p) /\ SubSeq(s, 1, Len(p)) = p

\* s.endswith(p)
EndsWith(s, p) ==
    Len(s) >= Len(p) /\ SubSeq(s, Len(s) - Len(p) + 1, Len(s)) = p

RECURSIVE Digits(_)
\* Decimal digits of a natural number.
Digits(n) ==
    IF n < 10 THEN <<DigitChars[n + 1]>>
    ELSE Digits(n \div 10) \o <<DigitChars[(n % 10) + 1]>>

RECURSIVE ZeroPad(_, _)
ZeroPad(s, width) == IF Len(s) >= width THEN s ELSE ZeroPad(<<"0">> \o s, width)

PadWidth == 3

\* f"{number:03d}"
Pad3(n) == ZeroPad(Digits(n), PadWidth)

MD == <<".", "m", "d">>
READMENAME == <<"R", "E", "A", "D", "M", "E", ".", "m", "d">>

\* --------------------------------------------------------------- issues
\* A fetched issue is a JSON object: a function from its keys to values.
\* A timestamp is <<date, time>>; JSON null is the empty tuple.
IssueKeys ==
    {"number", "title", "state", "created_at", "updated_at", "closed_at",
     "html_url"}

States == {"open", "closed"}

Prefixes ==
    { <<>>,
      <<"P", "1", ".", "1", ":", " ">>,
      <<"P", "2", " ", "ARROW", " ">> }

BodyChars == {"a", "/"}

Bodies == UNION {[1..n -> BodyChars] : n \in 0..MaxBodyLen}

Titles == {p \o b : p \in Prefixes, b \in Bodies}

\* The object the tracker returns for issue n.
Issue(n, t, s) ==
    [number |-> n, title |-> t, state |-> s,
     created_at |-> <<"2024-01-01", "T10:00:00Z">>,
     updated_at |-> <<"2024-01-02", "T11:00:00Z">>,
     closed_at |-> IF s = "closed" THEN <<"2024-01-03", "T12:00:00Z">> ELSE <<>>,
     html_url |-> <<"https://github.com/mshaler/Isometry/issues/", n>>]

\* The same object with one key left out.
Without(issue, key) == [k \in DOMAIN issue \ {key} |-> issue[k]]

WellFormed(issue) == IssueKeys \subseteq DOMAIN issue

\* format_date: the date part of an ISO timestamp, None for a falsy one.
format_date(iso_date) == IF iso_date = <<>> THEN None ELSE iso_date[1]

\* Phase of a title (create_issue_markdown, lines 67-74).
PhaseOf(title) ==
    IF StartsWith(title, <<"P", "1">>) THEN "phase-1"
    ELSE IF StartsWith(title, <<"P", "2">>) THEN "phase-2"
    ELSE IF StartsWith(title, <<"P", "3">>) THEN "phase-3"
    ELSE None

\* The keys create_issue_markdown subscripts (issue['k']); a missing one
\* raises KeyError.  labels and body are read with .get and pass through.
MarkdownKeys ==
    {"number", "title", "state", "created_at", "updated_at", "closed_at",
     "html_url"}

\* create_issue_markdown: the text of an issue file, as its fields.
create_issue_markdown(issue) ==
    [kind |-> "issue",
     github_issue |-> issue["number"],
     title |-> issue["title"],
     state |-> issue["state"],
     created |-> format_date(issue["created_at"]),
     updated |-> format_date(issue["updated_at"]),
     closed |-> IF issue["closed_at"] # <<>>
                THEN format_date(issue["closed_at"]) ELSE None,
     phase |-> PhaseOf(issue["title"]),
     url |-> issue["html_url"]]

\* sanitize_filename of sync-github-issues.py.
KeepInFilename(c) == IsAlnum(c) \/ c \in {"-", "_"}

sanitize_filename(title) ==
    LET t == Strip(AfterFirst(title, ":"))
        f == ReplaceAll(ReplaceAll(ReplaceAll(Lower(t), <<" ">>, <<"-">>),
                                   <<"/">>, <<"-">>),
                        <<"ARROW">>, <<"t", "o">>)
    IN  SelectSeq(f, KeepInFilename)

\* The basename main() gives an issue's file (line 270), without ".md".
IssueBasename(issue) ==
    Pad3(issue["number"]) \o <<"-">> \o sanitize_filename(issue["title"])

IssueFilename(issue) == IssueBasename(issue) \o MD

\* The wiki-link target create_index gives an issue (lines 179, 188, 197).
IndexLink(issue) ==
    Pad3(issue["number"]) \o <<"-">> \o
    ReplaceAll(ReplaceAll(Lower(issue["title"]), <<":">>, <<>>), <<" ">>, <<"-">>)

IndexEntry(issue) ==
    [emoji |-> IF issue["state"] = "closed" THEN "checked" ELSE "unchecked",
     number |-> issue["number"],
     link |-> IndexLink(issue),
     title |-> issue["title"]]

RECURSIVE InsertByNumber(_, _)
\* x placed after every element whose number is not greater (stable).
InsertByNumber(sorted, x) ==
    IF sorted = <<>> THEN <<x>>
    ELSE IF sorted[1]["number"] <= x["number"]
         THEN <<sorted[1]>> \o InsertByNumber(Tail(sorted), x)
         ELSE <<x>> \o sorted

Unsorted(seq) == seq

RECURSIVE SortByNumber(_)
\* sorted(seq, key=lambda x: x['number'])
SortByNumber(seq) ==
    IF seq = <<>> THEN <<>>
    ELSE InsertByNumber(SortByNumber(SubSeq(seq, 1, Len(seq) - 1)), seq[Len(seq)])

IsP1(i) == StartsWith(i["title"], <<"P", "1">>)
IsP2(i) == StartsWith(i["title"], <<"P", "2">>)
IsP3(i) == StartsWith(i["title"], <<"P", "3">>)
IsOpen(i) == i["state"] = "open"
IsClosed(i) == i["state"] = "closed"

\* The entries of one phase group, in the order create_index lists them.
GroupEntries(group) ==
    LET s == SortByNumber(group) IN [j \in 1..Len(s) |-> IndexEntry(s[j])]

\* create_index: the text of README.md, as its fields; stamp is the
\* minute datetime.now() reads.
create_index(issues, stamp) ==
    [kind |-> "index",
     total |-> Len(issues),
     open |-> Len(SelectSeq(issues, IsOpen)),
     closed |-> Len(SelectSeq(issues, IsClosed)),
     synced |-> stamp,
     groups |-> << GroupEntries(SelectSeq(issues, IsP1)),
                   GroupEntries(SelectSeq(issues, IsP2)),
                   GroupEntries(SelectSeq(issues, IsP3)) >>]

\* ------------------------------------------------------------ sync state
VARIABLES
    tracker,    \* the issue list the tracker holds (what a fetch returns)
    edits,      \* edits made to the tracker's data so far
    pc,         \* where main() of the issue sync stands
    issues,     \* the list fetch_issues returned to the current run
    k,          \* the issue the for loop of main() handles next
    files,      \* docs/issues: file name -> content
    issuesDir,  \* whether docs/issues exists
    now,        \* the minute the wall clock shows
    run,        \* sync runs started
    fetched,    \* how the current run's fetch ended: "ok" or "error"
    before,     \* files as they stood when the current run started
    prev,       \* the previous run: its list, its fetch and how it ended
    written,    \* the file names the current run wrote, in order
    reported,   \* the count the current run printed at its end
    src,        \* the notes export: folder -> whether it exists, its files
    tdirs,      \* the directories of docs/notes/apple-notes that exist
    tfiles,     \* docs/notes/apple-notes: <<directory, name>> -> content
    npc,        \* where main() of the notes import stands
    nfolder,    \* the folder of FOLDERS_TO_IMPORT main() handles next
    totals,     \* total_md and total_img of the current import
    nwritten,   \* the paths the current import wrote, in order
    nrun,       \* imports started
    built,      \* what a call of create_index returned, if one was made
    doc,        \* the text of notes/isometry-evolution-timeline.md
    spc,        \* where split_timeline stands
    matches,    \* section -> what its re.search matched
    kb,         \* docs: the files the splits wrote
    have,       \* the documents of docs that the splits read and that exist
    mpc         \* where main() of the split stands

syncVars ==
    <<tracker, edits, pc, issues, k, files, issuesDir, run, fetched, before,
      prev, written, reported>>

notesVars == <<src, tdirs, tfiles, npc, nfolder, totals, nwritten, nrun>>

indexVars == <<built>>

splitVars == <<doc, spc, matches, kb, have, mpc>>

vars == <<syncVars, notesVars, indexVars, splitVars, now>>

EmptyDir == [p \in {} |-> None]

\* f with name mapped to content: open(path, 'w') and write.
WriteFile(f, name, content) ==
    [p \in DOMAIN f \cup {name} |-> IF p = name THEN content ELSE f[p]]

DistinctNumbers(l) ==
    \A i, j \in 1..Len(l) :
        (i # j /\ "number" \in DOMAIN l[i] /\ "number" \in DOMAIN l[j])
            => l[i]["number"] # l[j]["number"]

\* Lists of at most n objects of pool, no issue number twice.
ListsOver(pool, n) ==
    {l \in UNION {[1..m -> pool] : m \in 0..n} : DistinctNumbers(l)}

WellFormedIssues ==
    {Issue(n, t, s) : n \in 1..MaxNumber, t \in Titles, s \in States}

\* No import has run: the export and the target tree are not looked at.
NotesIdle ==
    /\ src = [f \in {} |-> None]
    /\ tdirs = {}
    /\ tfiles = EmptyDir
    /\ npc = "idle"
    /\ nfolder = 1
    /\ totals = [md |-> 0, img |-> 0]
    /\ nwritten = <<>>
    /\ nrun = 0

\* No sync has run.
SyncIdle ==
    /\ edits = 0
    /\ pc = "idle"
    /\ issues = <<>>
    /\ k = 1
    /\ files = EmptyDir
    /\ issuesDir = FALSE
    /\ run = 0
    /\ fetched = None
    /\ before = EmptyDir
    /\ prev = [issues |-> <<>>, fetched |-> None, pc |-> None]
    /\ written = <<>>
    /\ reported = None

NoMatch == [from |-> 0, to |-> 0, text |-> <<>>]

Sections == {"V1", "V2", "V3", "V4"}

TIMELINE == "notes/isometry-evolution-timeline.md"
GAPANALYSIS == "ISOMETRY-MVP-GAP-ANALYSIS.md"
CONVERSATIONS == "CONVERSATIONS.md"

SourceDocs == {TIMELINE, GAPANALYSIS, CONVERSATIONS}

\* No split has run.
SplitStart ==
    /\ spc = "idle"
    /\ matches = [s \in Sections |-> NoMatch]
    /\ kb = EmptyDir
    /\ mpc = "timeline"

\* No split has run and the documents to split are there.
SplitIdle ==
    /\ SplitStart
    /\ have = SourceDocs

SyncInitWith(lists) ==
    /\ tracker \in lists
    /\ SyncIdle
    /\ NotesIdle
    /\ built = <<>>
    /\ doc = <<>>
    /\ SplitIdle
    /\ now = 0

SyncInit == SyncInitWith(ListsOver(WellFormedIssues, MaxIssues))

RunEnded == pc \in {"done", "crashed"}

\* Between two runs somebody edits one issue on the tracker: its title or
\* its state (closing it sets closed_at, reopening clears it).
EditTracker ==
    /\ RunEnded
    /\ run < MaxRuns
    /\ edits < MaxEdits
    /\ \E i \in 1..Len(tracker), t \in Titles, s \in States :
          /\ WellFormed(tracker[i])
          /\ <<t, s>> # <<tracker[i]["title"], tracker[i]["state"]>>
          /\ t = tracker[i]["title"] \/ s = tracker[i]["state"]
          /\ tracker' =
               [tracker EXCEPT ![i] = Issue(tracker[i]["number"], t, s)]
    /\ edits' = edits + 1
    /\ UNCHANGED <<pc, issues, k, files, issuesDir, now, run, fetched, before,
                   prev, written, reported, notesVars, indexVars, splitVars>>

ReturnsEarlyNever(l) == FALSE

\* main() line 256: "if not issues: return".
ReturnsEarly(l) == l = <<>>

\* main() lines 253-263 with the list and the outcome of the fetch given.
\* A run starts once the previous one has ended, at any later minute.
StartRun(l, outcome) ==
    /\ pc = "idle" \/ RunEnded
    /\ run < MaxRuns
    /\ run' = run + 1
    /\ \E t \in now..MaxClock : now' = t
    /\ issues' = l
    /\ fetched' = outcome
    /\ before' = files
    /\ prev' = [issues |-> issues, fetched |-> fetched, pc |-> pc]
    /\ written' = <<>>
    /\ reported' = None
    /\ k' = 1
    /\ IF ReturnsEarly(l)
       THEN pc' = "done" /\ UNCHANGED issuesDir
       ELSE pc' = "loop" /\ issuesDir' = TRUE
    /\ UNCHANGED <<tracker, edits, files, notesVars, indexVars, splitVars>>

\* fetch_issues returns the parsed response.
Fetch == StartRun(tracker, "ok")

\* fetch_issues catches URLError and returns [].
FetchError == StartRun(<<>>, "error")

\* One turn of the for loop of main(), lines 267-278.  A subscript of a
\* missing key raises KeyError, which nothing catches: main() ends there.
WriteIssue ==
    /\ pc = "loop"
    /\ k <= Len(issues)
    /\ IF MarkdownKeys \subseteq DOMAIN issues[k]
       THEN /\ files' = WriteFile(files, IssueFilename(issues[k]),
                                  create_issue_markdown(issues[k]))
            /\ written' = Append(written, IssueFilename(issues[k]))
            /\ k' = k + 1
            /\ UNCHANGED pc
       ELSE /\ pc' = "crashed"
            /\ UNCHANGED <<files, written, k>>
    /\ UNCHANGED <<tracker, edits, issues, issuesDir, now, run, fetched,
                   before, prev, reported, notesVars, indexVars, splitVars>>

\* main() lines 280-289: the index, then the summary line.
WriteIndex ==
    /\ pc = "loop"
    /\ k > Len(issues)
    /\ files' = WriteFile(files, READMENAME, create_index(issues, now))
    /\ written' = Append(written, READMENAME)
    /\ reported' = Len(issues)
    /\ pc' = "done"
    /\ UNCHANGED <<tracker, edits, issues, k, issuesDir, now, run, fetched,
                   before, prev, notesVars, indexVars, splitVars>>

SyncNext ==
    \/ EditTracker
    \/ Fetch
    \/ FetchError
    \/ WriteIssue
    \/ WriteIndex

Spec == SyncInit /\ [][SyncNext]_vars

\* Fetched lists with malformed records: record i is issue i, whole or
\* with one of its keys missing.
MaxRecords == 3

RecordsOf(n) ==
    {Issue(n, <<"a">>, "open")} \cup
    {Without(Issue(n, <<"a">>, "open"), key) : key \in IssueKeys}

MalformedLists ==
    UNION { {l \in [1..m -> UNION {RecordsOf(n) : n \in 1..m}] :
                \A i \in 1..m : l[i] \in RecordsOf(i)} : m \in 0..MaxRecords }

MalformedInit == SyncInitWith(MalformedLists)

SpecMalformed == MalformedInit /\ [][SyncNext]_vars

\* Fetched lists with issue numbers of one to four digits.
MaxWide == 2         \* issues in such a list

WideNumbers == {1, 9, 10, 99, 100, 999, 1000, 1001}

WideIssues == {Issue(n, t, "open") : n \in WideNumbers, t \in Bodies}

WideLists == ListsOver(WideIssues, MaxWide)

WideInit == SyncInitWith(WideLists)

SpecWide == WideInit /\ [][SyncNext]_vars

\* --------------------------------------------------------- notes import
\* FOLDERS_TO_IMPORT, in the order main() iterates it.
Folders == <<"ClaudeAI", "CardBoard">>

BASE == "apple-notes"

PNG == <<".", "p", "n", "g">>

\* File names an export holds: a title, then nothing, an id or a word.
NoteStems == {<<"a">>, <<"b">>}
NoteSuffixes == {<<>>, <<"-", "1">>, <<"-", "2">>, <<"-", "b">>}
NoteNames == {t \o x \o MD : t \in NoteStems, x \in NoteSuffixes}
ImageNames == {<<"i">> \o PNG}

MaxNotes == 2        \* markdown files in one source folder

FolderStates ==
    {[exists |-> FALSE, md |-> {}, img |-> {}]} \cup
    {[exists |-> TRUE, md |-> m, img |-> g] :
        m \in {x \in SUBSET NoteNames : Cardinality(x) <= MaxNotes},
        g \in SUBSET ImageNames}

\* s.rsplit(c, 1)
RSplitLast(s, c) ==
    IF Positions(s, c) = {} THEN <<s>>
    ELSE << SubSeq(s, 1, Max(Positions(s, c)) - 1),
            SubSeq(s, Max(Positions(s, c)) + 1, Len(s)) >>

\* sanitize_filename of import-apple-notes.py.
note_sanitize_filename(filename) ==
    LET parts == RSplitLast(filename, "-") IN
    IF /\ EndsWith(filename, MD)
       /\ Len(parts) = 2
       /\ IsDigit(ReplaceAll(parts[2], MD, <<>>))
    THEN parts[1] \o MD
    ELSE filename

\* The orders in which glob() can list the files of set S.
Orders(S) ==
    {o \in [1..Cardinality(S) -> S] :
        \A i, j \in 1..Cardinality(S) : i # j => o[i] # o[j]}

\* shutil.copy2 of a source file: the target holds that file's content.
CopyOf(folder, name) == [kind |-> "copy", of |-> <<folder, name>>]

\* The target paths copy_folder_notes writes for the names in this order.
NoteTargets(folder, order) ==
    [i \in 1..Len(order) |-> <<folder, note_sanitize_filename(order[i])>>]

ImageTargets(folder, order) == [i \in 1..Len(order) |-> <<folder, order[i]>>]

RECURSIVE CopyNotes(_, _, _)
\* The loop of lines 55-62 over the markdown files in this order.
CopyNotes(tf, folder, order) ==
    IF order = <<>> THEN tf
    ELSE CopyNotes(WriteFile(tf, <<folder, note_sanitize_filename(order[1])>>,
                             CopyOf(folder, order[1])),
                   folder, Tail(order))

RECURSIVE CopyImages(_, _, _)
\* The loop of lines 65-68 over the image files in this order.
CopyImages(tf, folder, order) ==
    IF order = <<>> THEN tf
    ELSE CopyImages(WriteFile(tf, <<folder, order[1]>>, CopyOf(folder, order[1])),
                    folder, Tail(order))

\* create_index of import-apple-notes.py: the text of its README.md.
notes_index(stamp) == [kind |-> "index", imported |-> stamp]

NotesInitWith(states) ==
    /\ src \in [{Folders[i] : i \in 1..Len(Folders)} -> states]
    /\ tdirs = {}
    /\ tfiles = EmptyDir
    /\ npc = "idle"
    /\ nfolder = 1
    /\ totals = [md |-> 0, img |-> 0]
    /\ nwritten = <<>>
    /\ nrun = 0
    /\ tracker = <<>>
    /\ SyncIdle
    /\ built = <<>>
    /\ doc = <<>>
    /\ SplitIdle
    /\ now = 0

ImportEnded == npc \in {"done", "crashed"}

\* main() lines 175-179: an import starts, at any later minute.
StartImport ==
    /\ npc = "idle" \/ ImportEnded
    /\ nrun < MaxRuns
    /\ nrun' = nrun + 1
    /\ \E t \in now..MaxClock : now' = t
    /\ npc' = "copy"
    /\ nfolder' = 1
    /\ totals' = [md |-> 0, img |-> 0]
    /\ nwritten' = <<>>
    /\ UNCHANGED <<src, tdirs, tfiles, syncVars, indexVars, splitVars>>

\* copy_folder_notes line 41: "if not source.exists(): return 0, 0".
SourceMissing(s) == ~s["exists"]

\* One turn of the loop of main(), lines 181-188: copy_folder_notes on the
\* next folder, its counts added to the totals.
CopyFolder ==
    /\ npc = "copy"
    /\ nfolder <= Len(Folders)
    /\ LET f == Folders[nfolder] IN
       IF SourceMissing(src[f])
       THEN UNCHANGED <<tdirs, tfiles, totals, nwritten>>
       ELSE \E mds \in Orders(src[f]["md"]), imgs \in Orders(src[f]["img"]) :
              /\ tdirs' = tdirs \cup {BASE, f}
              /\ tfiles' = CopyImages(CopyNotes(tfiles, f, mds), f, imgs)
              /\ totals' = [md |-> totals["md"] + Len(mds),
                            img |-> totals["img"] + Len(imgs)]
              /\ nwritten' = nwritten \o NoteTargets(f, mds)
                                      \o ImageTargets(f, imgs)
    /\ nfolder' = nfolder + 1
    /\ UNCHANGED <<src, npc, nrun, now, syncVars, indexVars, splitVars>>

\* main() lines 190-195: create_index opens TARGET_BASE/README.md for
\* writing, which raises FileNotFoundError when TARGET_BASE does not exist.
NotesIndex ==
    /\ npc = "copy"
    /\ nfolder > Len(Folders)
    /\ IF BASE \in tdirs
       THEN /\ tfiles' = WriteFile(tfiles, <<BASE, READMENAME>>, notes_index(now))
            /\ nwritten' = Append(nwritten, <<BASE, READMENAME>>)
            /\ npc' = "done"
       ELSE /\ npc' = "crashed"
            /\ UNCHANGED <<tfiles, nwritten>>
    /\ UNCHANGED <<src, tdirs, nfolder, totals, nrun, now, syncVars, indexVars,
                   splitVars>>

NotesNext ==
    \/ StartImport
    \/ CopyFolder
    \/ NotesIndex

NotesInit == NotesInitWith(FolderStates)

SpecNotes == NotesInit /\ [][NotesNext]_vars

\* ------------------------------------------------- create_index, called
MaxIndexIssues == 3  \* issues in a list handed to create_index

\* Titles of each phase and of none.
PhaseTitles ==
    { <<"a">>,
      <<"P", "1", ":", " ", "a">>,
      <<"P", "2", ":", " ", "a">>,
      <<"P", "3", ":", " ", "a">> }

IndexIssues ==
    {Issue(n, t, s) : n \in 1..MaxIndexIssues, t \in PhaseTitles, s \in States}

IndexInit ==
    /\ issues \in ListsOver(IndexIssues, MaxIndexIssues)
    /\ tracker = <<>>
    /\ edits = 0
    /\ pc = "idle"
    /\ k = 1
    /\ files = EmptyDir
    /\ issuesDir = FALSE
    /\ run = 0
    /\ fetched = None
    /\ before = EmptyDir
    /\ prev = [issues |-> <<>>, fetched |-> None, pc |-> None]
    /\ written = <<>>
    /\ reported = None
    /\ NotesIdle
    /\ built = <<>>
    /\ doc = <<>>
    /\ SplitIdle
    /\ now \in 0..MaxClock

\* A call create_index(issues).
BuildIndex ==
    /\ built = <<>>
    /\ built' = <<create_index(issues, now)>>
    /\ UNCHANGED <<syncVars, notesVars, splitVars, now>>

IndexNext == BuildIndex

SpecIndex == IndexInit /\ [][IndexNext]_vars

\* ------------------------------------------------------- split_timeline
\* The timeline is a sequence of pieces of text: the literal pieces the
\* patterns of split_timeline are made of, a line of other text, and the
\* line break.
MaxDocLen == 4       \* pieces of text in the timeline

V1HEAD == "### V1: CardBoard (Early 2024)"
V2PRE == "### V2:"
V2REST == " CardBoard Refinement (Mid 2024)"
V3PRE == "### V3:"
V3REST == " CardBoard \"Boring Stack\""
V3DATE == " (Late 2024 - Dec 2024)"
V4PRE == "### V4:"
V4REST == " Isometry Native-First"
V4DATE == " (Jan 2026 - Present)"
RULE == "---\n\n"
KEYARCH == "## Key Architectural"
CURRENT == "## Current State"
CURDATE == " (2026-01-23)"
TEXT == "text"
NL == "\n"

DocPieces ==
    {V1HEAD, V2PRE, V2REST, V3PRE, V3REST, V3DATE, V4PRE, V4REST, V4DATE,
     RULE, KEYARCH, CURRENT, CURDATE, TEXT, NL}

Docs == UNION {[1..n -> DocPieces] : n \in 0..MaxDocLen}

\* The literal a section's pattern starts with (lines 22, 38, 54, 70).
StartOf(sec) ==
    CASE sec = "V1" -> <<V1HEAD>>
      [] sec = "V2" -> <<V2PRE, V2REST>>
      [] sec = "V3" -> <<V3PRE, V3REST>>
      [] sec = "V4" -> <<V4PRE, V4REST>>

\* The alternatives of a section's lookahead (?=...).
EndsOf(sec) ==
    CASE sec = "V1" -> {<<V2PRE>>, <<RULE, KEYARCH>>}
      [] sec = "V2" -> {<<V3PRE>>, <<RULE, CURRENT>>}
      [] sec = "V3" -> {<<V4PRE>>, <<RULE, CURRENT>>}
      [] sec = "V4" -> {<<RULE, CURRENT>>}

\* The heading .replace(heading, '') removes from a section's text.
HeadingOf(sec) ==
    CASE sec = "V1" -> <<V1HEAD>>
      [] sec = "V2" -> <<V2PRE, V2REST>>
      [] sec = "V3" -> <<V3PRE, V3REST, V3DATE>>
      [] sec = "V4" -> <<V4PRE, V4REST, V4DATE>>

FileOf(sec) ==
    CASE sec = "V1" -> "V1-CARDBOARD-2023.md"
      [] sec = "V2" -> "V2-CARDBOARD-REACT-2024.md"
      [] sec = "V3" -> "V3-CARDBOARD-BORING-STACK-2024.md"
      [] sec = "V4" -> "V4-ISOMETRY-NATIVE-2026.md"

\* The literal pat stands in d at position i.
MatchesAt(d, pat, i) ==
    i >= 1 /\ i + Len(pat) - 1 <= Len(d) /\ SubSeq(d, i, i + Len(pat) - 1) = pat

\* The lookahead holds at position j: one of the literals stands there or,
\* with atEnd (the alternative "$"), the document ends there.
LookaheadAt(d, ends, atEnd, j) ==
    \/ \E e \in ends : MatchesAt(d, e, j)
    \/ atEnd /\ j = Len(d) + 1

GreedyEnd(S) == Max(S)

\* ".*?": of the positions where the lookahead holds, the nearest.
LazyEnd(S) == Min(S)

\* re.search(start + ".*?(?=" + ends + ")", d, re.DOTALL): the leftmost
\* position from which the pattern matches, and the match from there.
Search(d, start, ends, atEnd) ==
    LET stops(i) ==
            {j \in (i + Len(start))..(Len(d) + 1) : LookaheadAt(d, ends, atEnd, j)}
        viable == {i \in 1..Len(d) : MatchesAt(d, start, i) /\ stops(i) # {}}
    IN  IF viable = {} THEN NoMatch
        ELSE [from |-> Min(viable),
              to |-> LazyEnd(stops(Min(viable))) - 1,
              text |-> SubSeq(d, Min(viable), LazyEnd(stops(Min(viable))) - 1)]

Found(m) == m["from"] # 0

Blank(c) == c = NL

\* A piece of text without the blanks it starts with.
LStripPiece(c) ==
    CASE c = V2REST -> "CardBoard Refinement (Mid 2024)"
      [] c = V3REST -> "CardBoard \"Boring Stack\""
      [] c = V3DATE -> "(Late 2024 - Dec 2024)"
      [] c = V4REST -> "Isometry Native-First"
      [] c = V4DATE -> "(Jan 2026 - Present)"
      [] c = CURDATE -> "(2026-01-23)"
      [] OTHER -> c

\* A piece of text without the blanks it ends with (a rule ends with two
\* line breaks).
RStripPiece(c) == IF c = RULE THEN "---" ELSE c

RECURSIVE TLStrip(_)
TLStrip(s) ==
    IF s = <<>> THEN s
    ELSE IF Blank(s[1]) THEN TLStrip(Tail(s))
    ELSE <<LStripPiece(s[1])>> \o Tail(s)

RECURSIVE TRStrip(_)
TRStrip(s) ==
    IF s = <<>> THEN s
    ELSE IF Blank(s[Len(s)]) THEN TRStrip(SubSeq(s, 1, Len(s) - 1))
    ELSE SubSeq(s, 1, Len(s) - 1) \o <<RStripPiece(s[Len(s)])>>

\* The body of a version file: group(0).replace(heading, '').strip().
SectionBody(sec, m) == TRStrip(TLStrip(ReplaceAll(m["text"], HeadingOf(sec), <<>>)))

\* The "Current State" text the V4 file also gets (lines 73-74).  Where no
\* "Key Architectural" rule follows, "$" ends the match: at the end of the
\* document, or before the line break the document ends with.
CurrentState(d) ==
    LET m == Search(d, <<CURRENT, CURDATE>>, {<<RULE, KEYARCH>>}, TRUE)
        t == m["text"]
    IN  IF ~Found(m) \/ m["to"] < Len(d) THEN t
        ELSE IF t[Len(t)] = NL THEN SubSeq(t, 1, Len(t) - 1)
        ELSE IF t[Len(t)] = RULE THEN SubSeq(t, 1, Len(t) - 1) \o <<"---\n">>
        ELSE t

SectionMatch(d, sec) == Search(d, StartOf(sec), EndsOf(sec), FALSE)

VersionFile(d, sec) ==
    [kind |-> "version",
     body |-> SectionBody(sec, SectionMatch(d, sec)),
     current |-> IF sec = "V4" THEN CurrentState(d) ELSE <<>>]

SplitInitWith(docs) ==
    /\ doc \in docs
    /\ SplitIdle
    /\ tracker = <<>>
    /\ SyncIdle
    /\ NotesIdle
    /\ built = <<>>
    /\ now = 0

\* split_timeline: each section that is found is written to its file.
\* read_text() (line 19) raises FileNotFoundError when the timeline is not
\* there, and neither split_timeline nor main() catches it.
SplitTimeline ==
    /\ spc = "idle"
    /\ mpc = "timeline"
    /\ IF TIMELINE \in have
       THEN /\ matches' = [s \in Sections |-> SectionMatch(doc, s)]
            /\ kb' = [f \in {FileOf(s) : s \in {x \in Sections : Found(SectionMatch(doc, x))}}
                        |-> VersionFile(doc, CHOOSE s \in Sections : FileOf(s) = f)]
            /\ spc' = "done"
            /\ mpc' = "roadmap"
       ELSE /\ spc' = "crashed"
            /\ mpc' = "crashed"
            /\ UNCHANGED <<matches, kb>>
    /\ UNCHANGED <<doc, have, syncVars, notesVars, indexVars, now>>

SplitNext == SplitTimeline

SplitInit == SplitInitWith(Docs)

SpecSplit == SplitInit /\ [][SplitNext]_vars

\* Timelines made of headings and markers only, one piece longer: the
\* headings a timeline has, any of them missing, in any order.
MaxMarkers == 5      \* pieces of text in a timeline of markers

MarkerPieces ==
    {V1HEAD, V2PRE, V2REST, V3PRE, V3REST, V4PRE, V4REST, RULE, KEYARCH,
     CURRENT}

MarkerDocs == UNION {[1..n -> MarkerPieces] : n \in 0..MaxMarkers}

MarkerInit == SplitInitWith(MarkerDocs)

SpecMarkers == MarkerInit /\ [][SplitNext]_vars

\* ---------------------------------------------- main() of split-kb-files
MaxMainLen == 2      \* pieces of text in the timeline main() splits

MainDocs == UNION {[1..n -> DocPieces] : n \in 0..MaxMainLen}

RoadmapFiles ==
    {"ROADMAP.md", "PHASE-1-FOUNDATION.md", "PHASE-2-VIEWS.md",
     "PHASE-3-FILTERS.md"}

ConversationFiles ==
    {"CONVERSATIONS-2025-Q3.md", "CONVERSATIONS-2025-Q4.md",
     "CONVERSATIONS-2026-Q1.md", CONVERSATIONS}

\* The files of names, each with the fixed text the split gives it.
FixedFiles(names) ==
    [f \in names |-> [kind |-> f, body |-> <<>>, current |-> <<>>]]

\* split_roadmap: without the gap analysis it returns (lines 96-98), with
\* it the roadmap index and the three phase stubs are written.
SplitRoadmap ==
    /\ mpc = "roadmap"
    /\ kb' = IF GAPANALYSIS \in have
             THEN FixedFiles(RoadmapFiles) @@ kb
             ELSE kb
    /\ mpc' = "conversations"
    /\ UNCHANGED <<doc, spc, matches, have, syncVars, notesVars, indexVars,
                   now>>

\* split_conversations: without CONVERSATIONS.md it returns (lines
\* 156-158), with it the three quarters are written and CONVERSATIONS.md
\* is overwritten by the index.
SplitConversations ==
    /\ mpc = "conversations"
    /\ kb' = IF CONVERSATIONS \in have
             THEN FixedFiles(ConversationFiles) @@ kb
             ELSE kb
    /\ mpc' = "done"
    /\ UNCHANGED <<doc, spc, matches, have, syncVars, notesVars, indexVars,
                   now>>

\* Any of the three documents may be missing; a missing timeline has no
\* text.
MainInit ==
    /\ have \in SUBSET SourceDocs
    /\ doc \in (IF TIMELINE \in have THEN MainDocs ELSE {<<>>})
    /\ SplitStart
    /\ tracker = <<>>
    /\ SyncIdle
    /\ NotesIdle
    /\ built = <<>>
    /\ now = 0

MainNext ==
    \/ SplitTimeline
    \/ SplitRoadmap
    \/ SplitConversations

SpecMain == MainInit /\ [][MainNext]_vars

\* ------------------------------------------------------ claims, issue sync
IssueFilesOf(n) ==
    {p \in DOMAIN files :
        files[p]["kind"] = "issue" /\ files[p]["github_issue"] = n}

WrittenSet == {written[i] : i \in 1..Len(written)}

\* C1: two completed runs in a row over the same fetched list leave every
\* file the second run wrote (issue files and README.md) with the content
\* it had after the first run, whatever time passed in between.
C1_Idempotent ==
    (/\ pc = "done" /\ prev["pc"] = "done"
     /\ fetched = "ok" /\ prev["fetched"] = "ok"
     /\ prev["issues"] = issues)
    => \A p \in WrittenSet : p \in DOMAIN before /\ files[p] = before[p]

\* C2: after every run the directory holds at most one issue file per
\* issue number, also when the issue's title changed between two runs.
C2_OneFilePerNumber ==
    RunEnded => \A n \in 1..MaxNumber : Cardinality(IssueFilesOf(n)) <= 1

\* C4: a run whose fetched list holds a malformed record still writes the
\* file of every well-formed record and still writes the index.
C4_MalformedSkipped ==
    (RunEnded /\ \E i \in 1..Len(issues) : ~WellFormed(issues[i]))
    => /\ \A i \in 1..Len(issues) :
            WellFormed(issues[i]) => IssueFilename(issues[i]) \in WrittenSet
       /\ Cardinality(WrittenSet \ {READMENAME}) =
            Cardinality({i \in 1..Len(issues) : WellFormed(issues[i])})
       /\ READMENAME \in WrittenSet

\* C5: every entry of the README.md a run wrote links to the basename of
\* the file the same run wrote for that issue.
C5_IndexLinksResolve ==
    (pc = "done" /\ READMENAME \in WrittenSet)
    => \A g \in 1..3 :
         \A e \in 1..Len(files[READMENAME]["groups"][g]) :
           \A j \in 1..Len(issues) :
             issues[j]["number"] = files[READMENAME]["groups"][g][e]["number"]
             => files[READMENAME]["groups"][g][e]["link"] \o MD = written[j]

\* C6: a run whose fetch failed leaves the directory as it found it, and no
\* run removes a file that existed when it started.
C6_FailedFetchWritesNothing ==
    /\ fetched = "error" => (files = before /\ written = <<>>)
    /\ DOMAIN before \subseteq DOMAIN files

\* A failed fetch has ended a run that found files in the directory.
C6_Witness == fetched = "error" /\ pc = "done" /\ DOMAIN before # {}

\* C7: every run that ends normally wrote README.md exactly once, as its
\* last write, also when no issue was fetched.
C7_IndexWrittenLast ==
    pc = "done"
    => /\ written # <<>>
       /\ written[Len(written)] = READMENAME
       /\ Cardinality({i \in 1..Len(written) : written[i] = READMENAME}) = 1

\* --------------------------------------------------- claims, notes import
FolderSet == {Folders[i] : i \in 1..Len(Folders)}

NoteFilesIn(f) ==
    {p \in DOMAIN tfiles : p[1] = f /\ EndsWith(p[2], MD)}

\* C3: a first import into the empty target leaves one note file per
\* source note of each folder, and reports that many notes.
C3_OneFilePerRecord ==
    (npc = "done" /\ nrun = 1)
    => /\ \A f \in FolderSet :
            Cardinality(NoteFilesIn(f)) = Cardinality(src[f]["md"])
       /\ totals["md"] = Cardinality(UNION {NoteFilesIn(f) : f \in FolderSet})

\* C10: an import writes nothing for a missing source folder and ends
\* normally; with every folder missing and no target directory it ends
\* normally without writing any file.
C10_MissingSourceSafe ==
    ImportEnded
    => /\ \A f \in FolderSet :
            SourceMissing(src[f])
            => \A i \in 1..Len(nwritten) : nwritten[i][1] # f
       /\ (\E f \in FolderSet : SourceMissing(src[f])) => npc = "done"
       /\ (\A f \in FolderSet : SourceMissing(src[f]))
            => (npc = "done" /\ nwritten = <<>>)

\* ---------------------------------------------------- claims, extraction
Occurrences(d, pat) == {i \in 1..Len(d) : MatchesAt(d, pat, i)}

\* The positions after the first start heading where an end marker stands.
EndMarkersAfterStart(d, sec) ==
    {j \in (Min(Occurrences(d, StartOf(sec))) + Len(StartOf(sec)))..Len(d) :
        \E e \in EndsOf(sec) : MatchesAt(d, e, j)}

\* C8: the text extracted for a section whose start heading occurs begins
\* at the first occurrence of that heading, ends right before the first end
\* marker after it, and is all of the document in between; it is extracted
\* whenever an end marker follows the first start heading.
C8_ExtractionBoundary ==
    spc = "done"
    => \A sec \in Sections :
         /\ Found(matches[sec])
            => /\ Occurrences(doc, StartOf(sec)) # {}
               /\ matches[sec]["from"] = Min(Occurrences(doc, StartOf(sec)))
               /\ EndMarkersAfterStart(doc, sec) # {}
               /\ matches[sec]["to"] + 1 = Min(EndMarkersAfterStart(doc, sec))
               /\ matches[sec]["text"] =
                    SubSeq(doc, matches[sec]["from"], matches[sec]["to"])
         /\ (Occurrences(doc, StartOf(sec)) # {}
             /\ EndMarkersAfterStart(doc, sec) # {})
            => Found(matches[sec])

\* A section was extracted from a document in which its end marker occurs
\* twice after its start heading, with a blank line in the extracted text.
C8_Witness ==
    /\ spc = "done"
    /\ Found(matches["V1"])
    /\ Cardinality(EndMarkersAfterStart(doc, "V1")) >= 2
    /\ \E i \in 1..Len(matches["V1"]["text"]) : matches["V1"]["text"][i] = NL

\* ------------------------------------------------------- claims, index
Reorderings(seq) ==
    {[i \in 1..Len(seq) |-> seq[o[i]]] : o \in Orders(1..Len(seq))}

Ascending(entries) ==
    \A i, j \in 1..Len(entries) :
        i < j => entries[i]["number"] < entries[j]["number"]

NumbersOf(entries) == {entries[i]["number"] : i \in 1..Len(entries)}

NumbersWith(list, Test(_)) ==
    {list[i]["number"] : i \in {j \in 1..Len(list) : Test(list[j])}}

\* C9: create_index gives every ordering of the same issues the same
\* counts and the same groups: Phase 1, Phase 2, Phase 3 in this order,
\* each holding the issues of its phase in ascending issue number.
C9_IndexDeterminism ==
    built # <<>>
    => /\ \A q \in Reorderings(issues) :
            /\ create_index(q, now)["total"] = built[1]["total"]
            /\ create_index(q, now)["open"] = built[1]["open"]
            /\ create_index(q, now)["closed"] = built[1]["closed"]
            /\ create_index(q, now)["groups"] = built[1]["groups"]
       /\ \A g \in 1..3 : Ascending(built[1]["groups"][g])
       /\ NumbersOf(built[1]["groups"][1]) = NumbersWith(issues, IsP1)
       /\ NumbersOf(built[1]["groups"][2]) = NumbersWith(issues, IsP2)
       /\ NumbersOf(built[1]["groups"][3]) = NumbersWith(issues, IsP3)

\* An index was built from a list that is not in ascending number and has
\* two issues of one phase.
C9_Witness ==
    /\ built # <<>>
    /\ \E i, j \in 1..Len(issues) :
          /\ i < j
          /\ issues[i]["number"] > issues[j]["number"]
          /\ IsP1(issues[i]) /\ IsP1(issues[j])
    /\ Len(built[1]["groups"][1]) >= 2

\* C11: the ranges of the timeline that split_timeline extracts for V1, V2,
\* V3 and V4 are pairwise disjoint and lie in document order, whichever
\* headings and markers the timeline holds and in whatever order.
SectionOrder == <<"V1", "V2", "V3", "V4">>

C11_SectionsDisjoint ==
    spc = "done" =>
        \A i, j \in 1..Len(SectionOrder) :
            (/\ i < j
             /\ Found(matches[SectionOrder[i]])
             /\ Found(matches[SectionOrder[j]]))
            => matches[SectionOrder[i]]["to"] < matches[SectionOrder[j]]["from"]

\* C12: a section whose start heading does not occur, or a split whose
\* document is not there, writes no file and is no error: main() ends
\* normally, and every section that is found and every split whose
\* document is there has its files written.
HeadingOccurs(s) == \E i \in 1..Len(doc) : MatchesAt(doc, StartOf(s), i)

C12_MissTolerated ==
    mpc \in {"done", "crashed"} =>
        /\ mpc = "done"
        /\ \A s \in Sections :
              /\ ~HeadingOccurs(s) => FileOf(s) \notin DOMAIN kb
              /\ (TIMELINE \in have /\ Found(SectionMatch(doc, s)))
                    => FileOf(s) \in DOMAIN kb
        /\ GAPANALYSIS \in have => RoadmapFiles \subseteq DOMAIN kb
        /\ CONVERSATIONS \in have => ConversationFiles \subseteq DOMAIN kb

\* C13: after a sync that fetched issues and ended normally, every fetched
\* issue has exactly one entry in README.md, under one phase group, so the
\* entries listed are as many as the total shown, also for an issue whose
\* title starts with none of P1, P2, P3.
EntriesFor(readme, n) ==
    {gj \in (1..3) \X (1..readme["total"]) :
        /\ gj[2] <= Len(readme["groups"][gj[1]])
        /\ readme["groups"][gj[1]][gj[2]]["number"] = n}

EntriesListed(readme) ==
    Len(readme["groups"][1]) + Len(readme["groups"][2])
        + Len(readme["groups"][3])

C13_IndexCoversAll ==
    (pc = "done" /\ fetched = "ok" /\ issues # <<>>) =>
        /\ READMENAME \in DOMAIN files
        /\ files[READMENAME]["total"] = Len(issues)
        /\ EntriesListed(files[READMENAME]) = files[READMENAME]["total"]
        /\ \A i \in 1..Len(issues) :
              Cardinality(EntriesFor(files[READMENAME], issues[i]["number"])) = 1

\* C15: no issue file is written under a name that is only the padded
\* number, "-" and ".md": a title that sanitizes to nothing gets a
\* fallback name.
C15_EmptyNameRejected ==
    \A p \in DOMAIN files :
        files[p]["kind"] = "issue"
            => p # Pad3(files[p]["github_issue"]) \o <<"-">> \o MD

\* C14: of two issue files, the one of the smaller issue number has the
\* name that sorts lexically first, also for numbers of four digits.
\* The characters of an issue file's name, in code point order.
NameChars ==
    <<"-", ".">> \o DigitChars \o
    <<"_", "a", "b", "c", "d", "e", "f", "g", "h", "i", "j", "k", "l", "m",
      "n", "o", "p", "q", "r", "s", "t", "u", "v", "w", "x", "y", "z">>

CharRank(c) == CHOOSE i \in 1..Len(NameChars) : NameChars[i] = c

\* a sorts before b, character by character; a prefix sorts first.
LexLess(a, b) ==
    \E i \in 1..(Min({Len(a), Len(b)}) + 1) :
        /\ SubSeq(a, 1, i - 1) = SubSeq(b, 1, i - 1)
        /\ IF i > Len(a) THEN i <= Len(b)
           ELSE i <= Len(b) /\ CharRank(a[i]) < CharRank(b[i])

C14_NameOrderIsNumberOrder ==
    \A p, q \in DOMAIN files :
        (/\ files[p]["kind"] = "issue"
         /\ files[q]["kind"] = "issue"
         /\ files[p]["github_issue"] < files[q]["github_issue"])
        => LexLess(p, q)

====
